---- MODULE Spec2Model ----
(***************************************************************************)
(* Range-bounded extraction of part-result records (PRR) from a growing    *)
(* STDF file, and the checkpoint pipeline that drives it.                  *)
(*                                                                         *)
(*   src/extractor.h  StdfExtractor: isInRange, isPrrRecordType,           *)
(*                    extractPrrRecords, savePrrRecords, freePrrRecords    *)
(*   src/index.cpp    consumeMessages, publishMessage, createJsonMessage,  *)
(*                    executeRsync, main                                   *)
(*                                                                         *)
(* The STDF decoding library (StdfHeader::read, StdfPRR::parse,            *)
(* StdfFAR::parse) is not part of the sources; it is modelled from the     *)
(* interface the specification gives for it: reading a header consumes     *)
(* exactly the 4 header bytes, decoding works on the header object and     *)
(* does not move the stream.                                               *)
(***************************************************************************)
EXTENDS Integers, Sequences, FiniteSets, TLC

VARIABLES
    file,            \* content of the STDF file on disk
    scanPc,          \* position inside extractPrrRecords: "idle", "loop", "ret"
    caller,          \* who called extractPrrRecords: "none", "test", "consumer"
    reqName,         \* argument filename of the running/last call
    reqStart,        \* argument startPos as passed
    reqEnd,          \* argument endPos as passed
    startPos,        \* startPos after the range validation
    endPos,          \* endPos after the range validation
    cursor,          \* file.tellg()
    prrRecords,      \* the result vector of the running/last call
    headerReads,     \* number of StdfHeader::read calls of the running/last call
    decoded,         \* number of StdfPRR::parse calls of the running/last call
    scanCond,        \* the condition the call logged: how it ended
    typeCount,       \* static std::map typeCount of isPrrRecordType
    totalChecks,     \* static int totalChecks of isPrrRecordType
    calls,           \* completed direct calls: arguments and returned vector
    queue,           \* the messages waiting in the broker's queue LPX-67
    published,       \* number of completion lines and outside publications so far
    consPc,          \* consumer task: "off", "wait", "extract", "stopped"
    envelope,        \* the message the consumer is processing
    sync_time,       \* consumeMessages: time_t sync_time
    settled,         \* what the consumer sent for each delivery: ack or reject
    artifact,        \* the file /tmp/IFLEX-18/Output/Output.json
    rsyncPc,         \* producer task: "off", "sleep", "reading"
    file_name,       \* executeRsync: std::string file_name
    executeTime,     \* executeRsync: auto executeTime
    PREVIOUS_POSITION,  \* int PREVIOUS_POSITION
    emitted,         \* per completion line: the checkpoint built and what became of it
    liveRecords,     \* StdfPRR objects made by new StdfPRR() and not yet deleted
    input,           \* sanitizeString: the argument const char* input
    sanitized,       \* sanitizeString: what the call returned
    mutex_,          \* Logger: std::mutex mutex_, the task that holds it
    logPc,           \* Logger::log: where each task is inside its call
    logsLeft,        \* the calls of Logger::log each task has still to make
    console,         \* what has been written to std::cout
    logFile_         \* Logger: what has been written to std::ofstream logFile_

scanVars == <<scanPc, caller, reqName, reqStart, reqEnd, startPos, endPos, cursor,
              prrRecords, headerReads, decoded, scanCond, liveRecords>>
consVars == <<consPc, envelope, sync_time, settled, artifact>>
prodVars == <<rsyncPc, file_name, executeTime, PREVIOUS_POSITION, emitted>>
pipeVars == <<queue, published, consVars, prodVars>>
sanVars == <<input, sanitized>>
logVars == <<mutex_, logPc, logsLeft, console, logFile_>>
sideVars == <<sanVars, logVars>>
notLogVars == <<file, scanVars, typeCount, totalChecks, calls, pipeVars, sanVars>>
vars == <<file, scanVars, typeCount, totalChecks, calls, pipeVars, sideVars>>

-----------------------------------------------------------------------------
(* Record kinds, src/extractor.h:20-40 *)
FAR_TYPE == 0
HBR_TYPE == 5
PRR_TYPE == 16
PRR_TYPE_ALT1 == 25
PRR_TYPE_ALT2 == 185

headerSize == 4          \* isInRange: std::streamoff headerSize = 4
MaxRecordLen == 100000   \* sanity ceiling on a record length
MinBin == -10000         \* plausibility floor of hard bin and soft bin
MaxHeadSite == 255       \* plausibility ceiling of head and site number

(* Bounds of the model *)
MaxRecs == 1             \* records after the first one in an enumerated file
MaxPayload == 1          \* longest payload of an enumerated body record

-----------------------------------------------------------------------------
(* The file.  A file is a sequence of records, each a 4-byte header (kind,   *)
(* length) and a payload of `len` bytes, possibly followed by `tail` bytes   *)
(* of a record whose transfer is not complete.  `fill` is what the bytes at  *)
(* an offset that is no record boundary read as: the header and the fields   *)
(* the decoder finds there.                                                  *)

(* A record of the file: its header (kind, len) and what its payload holds.  *)
(* cpu and ver are the two fields StdfFAR::parse finds; payload names what   *)
(* StdfPRR::parse finds (ParsePrr below).                                    *)
Rec(kind, len, cpu, ver, payload) ==
    [kind |-> kind, len |-> len, cpu |-> cpu, ver |-> ver, payload |-> payload]

GoodFar == Rec(FAR_TYPE, 2, 2, 4, "good")
FirstRecs == { GoodFar,
               Rec(FAR_TYPE, 2, 1, 4, "good"),     \* CPU type 1
               Rec(FAR_TYPE, 2, 2, 3, "good"),     \* STDF version 3
               Rec(HBR_TYPE, 2, 2, 4, "good") }    \* no FAR at offset 0

BodyRecs == { Rec(PRR_TYPE, MaxPayload, 0, 0, "good"),
              Rec(PRR_TYPE_ALT1, 0, 0, 0, "good"),
              Rec(HBR_TYPE, MaxPayload, 0, 0, "good"),
              Rec(HBR_TYPE, 0, 0, 0, "good"),
              Rec(PRR_TYPE_ALT2, MaxPayload, 0, 0, "corrupt") }

Fills == { Rec(HBR_TYPE, 0, 0, 0, "good"),
           Rec(PRR_TYPE, 1, 0, 0, "badhead") }

Bodies == UNION { [1..n -> BodyRecs] : n \in 0..MaxRecs }

MkFile(first, body, fill, tail) ==
    [recs |-> <<first>> \o body, fill |-> fill, tail |-> tail]

(* The scenario of the specification: three target records at the byte      *)
(* extents [4,40), [40,90) and [90,130), after a file-attributes record      *)
(* that occupies [0,4).                                                      *)
ScenarioRecs == << Rec(FAR_TYPE, 0, 2, 4, "good"),
                   Rec(PRR_TYPE, 32, 0, 0, "good"),
                   Rec(PRR_TYPE, 46, 0, 0, "good"),
                   Rec(PRR_TYPE, 36, 0, 0, "good") >>
ScenarioFiles == { [recs |-> ScenarioRecs, fill |-> f, tail |-> 0] : f \in Fills }

(* A file with every kind of record the scan tells apart, ending in the      *)
(* first two bytes of a record still in transfer.                            *)
SampleRecs == << GoodFar,
                 Rec(HBR_TYPE, 1, 0, 0, "good"),
                 Rec(PRR_TYPE, 2, 0, 0, "good"),
                 Rec(PRR_TYPE_ALT2, 1, 0, 0, "corrupt"),
                 Rec(PRR_TYPE_ALT1, 0, 0, 0, "nopart"),
                 Rec(PRR_TYPE, 1, 0, 0, "badbin"),
                 Rec(HBR_TYPE, 0, 0, 0, "good") >>
SampleFiles == { [recs |-> SampleRecs, fill |-> f, tail |-> 2] : f \in Fills }

(* The same records in a file whose bytes off the record boundaries read as  *)
(* a header with a length above the sanity ceiling, or a negative one.       *)
CorruptFills == { Rec(HBR_TYPE, MaxRecordLen + 1, 0, 0, "good"),
                  Rec(PRR_TYPE, -1, 0, 0, "good") }
CorruptFiles == { [recs |-> SampleRecs, fill |-> f, tail |-> 2] : f \in CorruptFills }

(* The enumerated files: every body of at most MaxRecs records after a       *)
(* valid first record, and after each kind of invalid first record.          *)
EnumFiles ==
    { MkFile(GoodFar, body, fill, tail) :
        body \in Bodies, fill \in Fills, tail \in {0, 2} }
    \cup { MkFile(first, body, Rec(HBR_TYPE, 0, 0, 0, "good"), 0) :
             first \in FirstRecs, body \in Bodies }

Files == EnumFiles \cup ScenarioFiles \cup SampleFiles \cup CorruptFiles

(* StdfPRR::parse on a payload: the fields of the decoded record.  A         *)
(* "corrupt" payload makes the decoder raise (PrrThrows).                    *)
GoodPrr == [head_number |-> 1, site_number |-> 1, number_test |-> 3,
            hardbin |-> 1, softbin |-> 2, x_coordinate |-> 0, y_coordinate |-> 0,
            elapsed_ms |-> 2500,
            part_id |-> [null |-> FALSE, chars |-> <<80, 49>>],
            part_text |-> [null |-> FALSE, chars |-> <<34, 9, 47>>],
            supersede |-> FALSE, abnormal |-> FALSE, failed |-> FALSE,
            pf_invalid |-> FALSE]

ParsePrr(payload) ==
    CASE payload = "badbin" -> [GoodPrr EXCEPT !.hardbin = MinBin - 1]
      [] payload = "nopart" -> [GoodPrr EXCEPT !.part_id = [null |-> TRUE, chars |-> <<>>],
                                               !.part_text = [null |-> TRUE, chars |-> <<>>]]
      [] payload = "badhead" -> [GoodPrr EXCEPT !.head_number = MaxHeadSite + 1]
      [] OTHER -> GoodPrr

PrrThrows(payload) == payload = "corrupt"

RECURSIVE Extent(_, _)
(* Offset of the first byte after record i of recs (0 for i = 0). *)
Extent(recs, i) == IF i = 0 THEN 0 ELSE Extent(recs, i - 1) + headerSize + recs[i].len

Size(f) == Extent(f.recs, Len(f.recs)) + f.tail

IsBoundary(f, p) == \E i \in 1..Len(f.recs) : Extent(f.recs, i - 1) = p

(* What is stored at offset p: the record that starts there, else the fill. *)
RecAt(f, p) ==
    IF IsBoundary(f, p)
    THEN f.recs[CHOOSE i \in 1..Len(f.recs) : Extent(f.recs, i - 1) = p]
    ELSE f.fill

(* StdfHeader::read at offset p: it needs 4 bytes; it fails on fewer. *)
HeaderReadable(f, p) == p >= 0 /\ p + headerSize <= Size(f)

FileOpens(name) == name = "f"

-----------------------------------------------------------------------------
(* isInRange without the test of the record's end against endPos. *)
isInRange_startOnly(currentPos, recordLen, sPos, ePos) ==
    IF currentPos < 0 THEN FALSE
    ELSE IF recordLen < 0 \/ recordLen > MaxRecordLen THEN FALSE
    ELSE currentPos >= sPos

(* StdfExtractor::isInRange.  currentPos is file.tellg() at the call, which  *)
(* is made after the header has been read.                                   *)
isInRange(currentPos, recordLen, sPos, ePos) ==
    IF currentPos < 0 THEN FALSE
    ELSE IF recordLen < 0 \/ recordLen > MaxRecordLen THEN FALSE
    ELSE LET recordEndPos == currentPos + (headerSize + recordLen)
             afterStart == currentPos >= sPos
             beforeEnd == recordEndPos <= ePos
         IN  afterStart /\ beforeEnd

(* isPrrRecordType that also accepts a kind the frequency table has seen. *)
isPrrRecordType_promote(type, tc) ==
    \/ type = PRR_TYPE \/ type = PRR_TYPE_ALT1 \/ type = PRR_TYPE_ALT2
    \/ tc[type] >= 1

(* StdfExtractor::isPrrRecordType: the value it returns.  tc is the static   *)
(* frequency table at the call.                                              *)
isPrrRecordType(type, tc) ==
    type = PRR_TYPE \/ type = PRR_TYPE_ALT1 \/ type = PRR_TYPE_ALT2

Kinds == {FAR_TYPE, HBR_TYPE, PRR_TYPE, PRR_TYPE_ALT1, PRR_TYPE_ALT2}

(* StdfExtractor::isPrrRecordType: what a call leaves in typeCount; a match  *)
(* returns before the table is touched.                                      *)
CountType(type, tc) ==
    IF type = PRR_TYPE \/ type = PRR_TYPE_ALT1 \/ type = PRR_TYPE_ALT2
    THEN tc
    ELSE [tc EXCEPT ![type] = @ + 1]

(* ... and in totalChecks. *)
CountCheck(type, total) ==
    IF type = PRR_TYPE \/ type = PRR_TYPE_ALT1 \/ type = PRR_TYPE_ALT2
    THEN total
    ELSE total + 1

(* The basic sanity checks without the head and site number. *)
Suspicious_binsOnly(prr) ==
    \/ prr.hardbin < MinBin
    \/ prr.softbin < MinBin

(* The basic sanity checks on a decoded record. *)
Suspicious(prr) ==
    \/ prr.hardbin < MinBin
    \/ prr.softbin < MinBin
    \/ prr.head_number > MaxHeadSite
    \/ prr.site_number > MaxHeadSite

(* The range validation that leaves a negative startPos as it is. *)
ClampStart_asGiven(s) == s

(* The range validation of extractPrrRecords. *)
ClampStart(s) == IF s < 0 THEN 0 ELSE s
(* The range validation taking endPos = 0 for the end-of-file sentinel too. *)
ClampEnd_zeroIsEof(e, fileSize) == IF e <= 0 \/ e > fileSize THEN fileSize ELSE e

ClampEnd(e, fileSize) == IF e < 0 \/ e > fileSize THEN fileSize ELSE e

(* The check of the first record when the scan starts at offset 0:           *)
(* TRUE when the file is accepted.                                           *)
FarAccepted(f) ==
    LET h == RecAt(f, 0)
    IN  /\ h.kind = FAR_TYPE
        /\ h.cpu = 2
        /\ h.ver = 4

(* The sanity check on the length of an out-of-range record, without the     *)
(* ceiling.                                                                  *)
SkipLengthInvalid_noCeiling(skipLength) == skipLength <= 0

(* The sanity check on the length of an out-of-range record before it is     *)
(* skipped: TRUE stops the extraction.                                       *)
SkipLengthInvalid(skipLength) == skipLength <= 0 \/ skipLength > MaxRecordLen

(* The catch block of a failed decode that seeks back to the record's start. *)
SeekAfterParseFailure_rewind(pos, len) == pos - headerSize

(* The catch block of a failed decode that does not seek. *)
SeekAfterParseFailure_stay(pos, len) == pos

(* The catch block of a failed decode: file.seekg(header.get_length(), cur)  *)
(* from the position pos behind the header.                                  *)
SeekAfterParseFailure(pos, len) == pos + len

(* One evaluation of the while loop of extractPrrRecords at file position    *)
(* cur: the loop test and, when it holds, one iteration.  The result names   *)
(* where the call continues (pc), the new file position, the result vector,  *)
(* the statics of the classifier, how many headers and records the          *)
(* iteration read and decoded, and how many StdfPRR objects it made with    *)
(* new and how many of them it deleted.                                      *)
LoopStep(f, sPos, ePos, cur, recs, tc, total) ==
    LET stay == [pc |-> "ret", cursor |-> cur, recs |-> recs, tc |-> tc,
                 total |-> total, reads |-> 0, decodes |-> 0, news |-> 0,
                 deletes |-> 0, cond |-> "complete"]
    IN
    IF ~(cur < ePos) THEN stay
    ELSE IF ~HeaderReadable(f, cur)
    THEN [stay EXCEPT !.reads = 1, !.cond = "read_error"]
    ELSE
    LET h == RecAt(f, cur)
        afterHeader == cur + headerSize
        read == [stay EXCEPT !.reads = 1, !.cursor = afterHeader]
    IN
    IF ~isInRange(afterHeader, h.len, sPos, ePos)
    THEN IF SkipLengthInvalid(h.len)
         THEN [read EXCEPT !.cond = "invalid_skip_length"]
         ELSE [read EXCEPT !.pc = "loop", !.cursor = afterHeader + h.len]
    ELSE IF isPrrRecordType(h.kind, tc)
    THEN IF PrrThrows(h.payload)
         THEN [read EXCEPT !.pc = "loop", !.decodes = 1, !.news = 1,
                           !.cursor = SeekAfterParseFailure(afterHeader, h.len)]
         ELSE IF Suspicious(ParsePrr(h.payload))
         THEN [read EXCEPT !.pc = "loop", !.decodes = 1, !.news = 1, !.deletes = 1]
         ELSE [read EXCEPT !.pc = "loop", !.decodes = 1, !.news = 1,
                           !.recs = Append(recs, [pos |-> cur, len |-> h.len,
                                                  payload |-> h.payload])]
    ELSE LET counted == [read EXCEPT !.tc = CountType(h.kind, tc),
                                     !.total = CountCheck(h.kind, total)]
         IN  IF h.len < 0 \/ h.len > MaxRecordLen
             THEN [counted EXCEPT !.cond = "suspicious_length"]
             ELSE [counted EXCEPT !.pc = "loop", !.cursor = afterHeader + h.len]

(* extractPrrRecords from its entry to the first test of the while loop:     *)
(* open, file size, range validation, format check.                          *)
ExtractBegin(who, name, s, e) ==
    LET fileSize == Size(file)
        sPos == ClampStart(s)
        ePos == ClampEnd(e, fileSize)
        cond == IF ~FileOpens(name) THEN "open_failed"
                ELSE IF sPos >= ePos THEN "invalid_range"
                ELSE IF sPos = 0 /\ ~FarAccepted(file) THEN "unsupported_format"
                ELSE "scanning"
    IN  /\ caller' = who
        /\ reqName' = name
        /\ reqStart' = s
        /\ reqEnd' = e
        /\ startPos' = IF cond = "open_failed" THEN s ELSE sPos
        /\ endPos' = IF cond = "open_failed" THEN e ELSE ePos
        /\ cursor' = IF cond = "scanning" THEN sPos ELSE 0
        /\ prrRecords' = <<>>
        /\ headerReads' = IF cond \in {"scanning", "unsupported_format"} /\ sPos = 0
                          THEN 1 ELSE 0
        /\ decoded' = 0
        /\ scanCond' = cond
        /\ scanPc' = IF cond = "scanning" THEN "loop" ELSE "ret"
        /\ UNCHANGED liveRecords

(* The while loop of extractPrrRecords, one evaluation at a time. *)
ExtractLoop ==
    /\ scanPc = "loop"
    /\ LET n == LoopStep(file, startPos, endPos, cursor, prrRecords, typeCount, totalChecks)
       IN  /\ scanPc' = n.pc
           /\ cursor' = n.cursor
           /\ prrRecords' = n.recs
           /\ typeCount' = n.tc
           /\ totalChecks' = n.total
           /\ headerReads' = headerReads + n.reads
           /\ decoded' = decoded + n.decodes
           /\ liveRecords' = liveRecords + n.news - n.deletes
           /\ scanCond' = IF n.pc = "ret" THEN n.cond ELSE scanCond
    /\ UNCHANGED <<file, sideVars, caller, reqName, reqStart, reqEnd, startPos, endPos, calls,
                   pipeVars>>

-----------------------------------------------------------------------------
(* StdfExtractor::sanitizeString on a C string (a null pointer or the bytes  *)
(* before the terminating NUL).                                              *)
(* The body of the loop that leaves the slash as it is. *)
SanitizeByte_keepSlash(c) ==
    IF c >= 32 /\ c < 127
    THEN IF c = 92 \/ c = 34 THEN <<92, c>> ELSE <<c>>
    ELSE <<63>>

(* The body of the loop over the bytes: what is appended for the byte c. *)
SanitizeByte(c) ==
    IF c >= 32 /\ c < 127
    THEN IF c = 92 \/ c = 34 \/ c = 47 THEN <<92, c>> ELSE <<c>>
    ELSE <<63>>

RECURSIVE SanitizeChars(_)
SanitizeChars(s) ==
    IF s = <<>> THEN <<>>
    ELSE SanitizeByte(Head(s)) \o SanitizeChars(Tail(s))

sanitizeString(cstr) == IF cstr.null THEN <<>> ELSE SanitizeChars(cstr.chars)

(* C strings given to sanitizeString: a null pointer, or up to MaxChars      *)
(* bytes before the terminating NUL.  The bytes are a control byte, the      *)
(* space, the three escaped characters, a letter, the last printable byte,   *)
(* DEL and a byte above 127.                                                 *)
MaxChars == 2
Bytes == {9, 32, 34, 47, 65, 92, 126, 127, 200}
NullString == [null |-> TRUE, chars |-> <<>>]
CStrings ==
    {NullString} \cup
    UNION { { [null |-> FALSE, chars |-> s] : s \in [1..n -> Bytes] } : n \in 0..MaxChars }
NotCalled == [called |-> FALSE, text |-> <<>>]

(* One call of sanitizeString. *)
SanitizeCall ==
    /\ ~sanitized.called
    /\ sanitized' = [called |-> TRUE, text |-> sanitizeString(input)]
    /\ UNCHANGED <<file, scanVars, typeCount, totalChecks, calls, pipeVars, input,
                   logVars>>

SanitizeOff ==
    /\ input = NullString
    /\ sanitized = NotCalled

(* The start of test computed from the elapsed time in milliseconds as if   *)
(* it were in seconds.                                                       *)
StartOfTest_elapsedAsSeconds(t, elapsed_ms) == t - elapsed_ms

(* savePrrRecords: sync_time - prr->get_elapsed_ms() / 1000 *)
StartOfTest(t, elapsed_ms) == t - (elapsed_ms \div 1000)

(* The JSON object savePrrRecords builds for one record. *)
JsonRecord(prr, t) ==
    [head_number |-> prr.head_number,
     site_number |-> prr.site_number,
     test_count |-> prr.number_test,
     hard_bin |-> prr.hardbin,
     soft_bin |-> prr.softbin,
     x_coord |-> prr.x_coordinate,
     y_coord |-> prr.y_coordinate,
     test_time |-> prr.elapsed_ms,
     part_flags |-> [superseded |-> prr.supersede, abnormal |-> prr.abnormal,
                     failed |-> prr.failed, invalid_flag |-> prr.pf_invalid],
     last_modified |-> t,
     sot |-> StartOfTest(t, prr.elapsed_ms),
     eot |-> t]
    @@ (IF prr.part_id.null THEN [k \in {} |-> <<>>]
        ELSE [k \in {"part_id"} |-> sanitizeString(prr.part_id)])
    @@ (IF prr.part_text.null THEN [k \in {} |-> <<>>]
        ELSE [k \in {"part_text"} |-> sanitizeString(prr.part_text)])

(* The text savePrrRecords writes, as the pieces it sends to the stream: a   *)
(* line of plain text, or the dump of a JSON array.                          *)
TextLine(s) == [kind |-> "text", text |-> s, elems |-> <<>>]
ArrayDump(elems) == [kind |-> "array", text |-> "", elems |-> elems]

SaveContent(records, t) ==
    IF records = <<>>
    THEN << TextLine("// No PRR records found in the processed file range"),
            ArrayDump(<<>>) >>
    ELSE << ArrayDump([i \in 1..Len(records) |->
                          JsonRecord(ParsePrr(records[i].payload), t)]) >>

(* A JSON document is one value; JSON has no comments. *)
IsValidJson(content) == Len(content) = 1 /\ content[1].kind = "array"

NoArtifact == [exists |-> FALSE, content |-> <<>>]

(* savePrrRecords: the value it returns and what it leaves in the output     *)
(* file, for each outcome of opening and writing: "written", "open_failed"   *)
(* (the ofstream did not open), "raised" (an exception inside).              *)
SaveReturns(outcome) == outcome = "written"

(* The write that opens the output file for appending. *)
SaveArtifact_append(records, t, outcome, old) ==
    IF outcome = "written"
    THEN [exists |-> TRUE, content |-> old.content \o SaveContent(records, t)]
    ELSE old

SaveArtifact(records, t, outcome, old) ==
    IF outcome = "written" THEN [exists |-> TRUE, content |-> SaveContent(records, t)]
    ELSE old

-----------------------------------------------------------------------------
(* Checkpoint messages.  A field of the JSON body is absent, null, a number  *)
(* or a string; val is the text of the number or of the string.              *)
Field(enc, val) == [enc |-> enc, val |-> val]
Absent == Field("absent", <<>>)
Null == Field("null", <<>>)

Message(name, time, readPos, prevPos) ==
    [temp_file_name |-> name, sync_time |-> time,
     read_position |-> readPos, previous_position |-> prevPos]

(* messageJson.contains(key) && !messageJson[key].is_null() *)
HasField(f) == f.enc # "absent" /\ f.enc # "null"

DigitChars == <<"0", "1", "2", "3", "4", "5", "6", "7", "8", "9">>
IsDigit(c) == \E d \in 1..10 : DigitChars[d] = c
DigitValue(c) == (CHOOSE d \in 1..10 : DigitChars[d] = c) - 1

RECURSIVE DecimalValue(_, _)
DecimalValue(s, acc) ==
    IF s = <<>> \/ ~IsDigit(Head(s)) THEN acc
    ELSE DecimalValue(Tail(s), acc * 10 + DigitValue(Head(s)))

(* posStr.erase(std::remove(posStr.begin(), posStr.end(), ','), posStr.end()) *)
RemoveCommas(s) == SelectSeq(s, LAMBDA c : c # ",")

(* std::stoi on a text without sign or leading blanks: the value of the      *)
(* leading digits; it throws when there is none.                             *)
StoiThrows(s) == s = <<>> \/ ~IsDigit(Head(s))
Stoi(s) == DecimalValue(s, 0)

RECURSIVE to_string(_)
(* std::to_string of a non-negative int *)
to_string(n) ==
    IF n < 10 THEN <<DigitChars[n + 1]>>
    ELSE to_string(n \div 10) \o <<DigitChars[(n % 10) + 1]>>

(* An int has 32 bits.  The value of a decimal text is accumulated in two    *)
(* 16-bit halves, hi and lo, modulo 2^32; big records that the value has     *)
(* passed the largest int.                                                   *)
Half == 65536

RECURSIVE Accumulate(_, _)
Accumulate(s, acc) ==
    IF s = <<>> \/ ~IsDigit(Head(s)) THEN acc
    ELSE LET low == acc.lo * 10 + DigitValue(Head(s))
             high == acc.hi * 10 + (low \div Half)
         IN  Accumulate(Tail(s), [hi |-> high % Half, lo |-> low % Half,
                                  big |-> acc.big \/ high >= Half \div 2])

Digits32(s) == Accumulate(s, [hi |-> 0, lo |-> 0, big |-> FALSE])

(* The conversion of a JSON number to int by get<int>(): a static_cast,     *)
(* which keeps the low 32 bits.                                              *)
ToInt(s) ==
    LET n == Digits32(s)
    IN  IF n.hi < Half \div 2 THEN n.hi * Half + n.lo
        ELSE (n.hi - Half) * Half + n.lo

(* std::stoi raising: std::invalid_argument without a leading digit,         *)
(* std::out_of_range when the value does not fit an int.                     *)
StoiRaises(s) == StoiThrows(s) \/ Digits32(s).big

(* consumeMessages: reading a position field that is present raises (the    *)
(* string branch; the loop has no handler for it).                           *)
PositionRaises(f) == f.enc = "str" /\ StoiRaises(RemoveCommas(f.val))

(* consumeMessages: the int it takes from a position field that is present. *)
PositionValue(f) ==
    IF f.enc = "str" THEN Stoi(RemoveCommas(f.val)) ELSE ToInt(f.val)

(* strptime(timeStr, "%Y/%m/%d %H:%M:%S", &tm) returning a null pointer.     *)
(* A time is modelled by its epoch second, the text of a formatted time by   *)
(* the text of that second: the text parses when it begins with digits, and  *)
(* what follows them is left unread, as the milliseconds are.                *)
StrptimeFails(s) == s = <<>> \/ ~IsDigit(Head(s))

(* The reading of sync_time that takes a text that does not parse for the    *)
(* time it stands for, 0.                                                    *)
SyncTimeValue_unparsedIsEpoch(f, now) ==
    IF HasField(f) THEN DecimalValue(f.val, 0) ELSE now

(* consumeMessages: time_t sync_time after the sync_time field is read;      *)
(* now is time(nullptr).                                                     *)
SyncTimeValue(f, now) ==
    IF ~HasField(f) THEN now
    ELSE IF f.enc = "str"
    THEN IF StrptimeFails(f.val) THEN now ELSE DecimalValue(f.val, 0)
    ELSE IF f.enc = "int" THEN DecimalValue(f.val, 0)
    ELSE now

(* createJsonMessage *)
createJsonMessage(name, time, read_position, previous_position) ==
    Message(Field("str", name), Field("str", time),
            Field("int", to_string(Stoi(RemoveCommas(read_position)))),
            Field("int", to_string(Stoi(RemoveCommas(previous_position)))))

(* Bounds and inputs of the pipeline *)
MaxPublished == 2        \* messages handed to the broker in one behaviour

ReceiptTimes == {1700000000}
RoundTimes == {<<"1", "6", "9", "9", "9", "9", "9", "9", "9", "9">>}
ReportedBytes == { <<"6">>, <<"3", "7">>,
                   <<"2", "1", "4", "7", "4", "8", "3", "6", "4", "8">> }

(* Messages other publishers put on the queue. *)
ExternalMessages ==
    { Message(Absent, Absent, Field("int", <<"1", "3">>), Field("int", <<"0">>)),
      Message(Null, Absent, Field("int", <<"1", "3">>), Absent),
      Message(Field("str", "f"), Absent, Absent, Field("int", <<"0">>)),
      Message(Field("str", "f"), Absent, Null, Absent),
      Message(Field("str", "f"), Field("int", <<"5">>),
              Field("str", <<"1", ",", "0", "2", "4">>), Field("int", <<"0">>)),
      Message(Field("str", "f"), Absent,
              Field("int", <<"2", "1", "4", "7", "4", "8", "3", "6", "4", "8">>), Absent),
      Message(Field("str", "f"), Absent,
              Field("str", <<"2", "1", "4", "7", "4", "8", "3", "6", "4", "8">>), Absent),
      Message(Field("str", "f"), Field("str", <<"n", "o", "w">>),
              Field("int", <<"3", "7">>), Field("str", <<"1", "3">>)),
      Message(Field("str", "nofile"), Absent, Field("int", <<"3", "7">>), Absent) }

NoMessage == Message(Absent, Absent, Absent, Absent)

-----------------------------------------------------------------------------
(* The producer task: main's rsync_thread and executeRsync. *)

(* A transfer round starts: executeRsync is entered. *)
RsyncStart ==
    /\ rsyncPc = "sleep"
    /\ rsyncPc' = "reading"
    /\ file_name' = ""
    /\ \E now \in RoundTimes : executeTime' = now
    /\ UNCHANGED <<file, sideVars, scanVars, typeCount, totalChecks, calls, queue, published,
                   consVars, PREVIOUS_POSITION, emitted>>

(* A line of the transfer tool matches the per-file-update pattern. *)
RsyncFileLine ==
    /\ rsyncPc = "reading"
    /\ file_name' = "f"
    /\ UNCHANGED <<file, sideVars, scanVars, typeCount, totalChecks, calls, queue, published,
                   consVars, rsyncPc, executeTime, PREVIOUS_POSITION, emitted>>

(* createJsonMessage raising: std::stoi on a byte count or on the cursor     *)
(* text that does not fit an int.                                            *)
createJsonMessageRaises(read_position, previous_position) ==
    \/ StoiRaises(RemoveCommas(read_position))
    \/ StoiRaises(RemoveCommas(previous_position))

(* What a completion line left behind: the line's byte count, the message    *)
(* createJsonMessage built for it (none when it raised), and the outcome     *)
(* "sent", "publish_failed" or "raised".                                     *)
Emission(bytes, msg, outcome) == [bytes |-> bytes, msg |-> msg, outcome |-> outcome]

(* The completion line that moves the cursor only when the checkpoint was    *)
(* published.                                                                *)
RsyncCompletion_advanceWhenSent(transferred_bytes, sent) ==
    /\ rsyncPc = "reading"
    /\ published < MaxPublished
    /\ published' = published + 1
    /\ IF createJsonMessageRaises(transferred_bytes, to_string(PREVIOUS_POSITION))
       THEN /\ rsyncPc' = "sleep"
            /\ emitted' = Append(emitted, Emission(transferred_bytes, NoMessage, "raised"))
            /\ UNCHANGED <<queue, PREVIOUS_POSITION>>
       ELSE LET message == createJsonMessage(file_name, executeTime, transferred_bytes,
                                             to_string(PREVIOUS_POSITION))
                clean_bytes == RemoveCommas(transferred_bytes)
            IN  /\ queue' = IF sent THEN Append(queue, message) ELSE queue
                /\ emitted' = Append(emitted,
                       Emission(transferred_bytes, message,
                                IF sent THEN "sent" ELSE "publish_failed"))
                /\ PREVIOUS_POSITION' = IF StoiRaises(clean_bytes) \/ ~sent
                                        THEN PREVIOUS_POSITION
                                        ELSE Stoi(clean_bytes)
                /\ UNCHANGED rsyncPc
    /\ UNCHANGED <<file, sideVars, scanVars, typeCount, totalChecks, calls, consVars,
                   file_name, executeTime>>

(* A line matches the completion pattern with byte count transferred_bytes.  *)
(* createJsonMessage builds the checkpoint; publishMessage succeeds (sent)   *)
(* or fails, and its result is not used; PREVIOUS_POSITION is advanced.      *)
(* When createJsonMessage raises, the exception leaves executeRsync and is   *)
(* caught in the loop of rsync_thread, which starts the next round.          *)
RsyncCompletion(transferred_bytes, sent) ==
    /\ rsyncPc = "reading"
    /\ published < MaxPublished
    /\ published' = published + 1
    /\ IF createJsonMessageRaises(transferred_bytes, to_string(PREVIOUS_POSITION))
       THEN /\ rsyncPc' = "sleep"
            /\ emitted' = Append(emitted, Emission(transferred_bytes, NoMessage, "raised"))
            /\ UNCHANGED <<queue, PREVIOUS_POSITION>>
       ELSE LET message == createJsonMessage(file_name, executeTime, transferred_bytes,
                                             to_string(PREVIOUS_POSITION))
                clean_bytes == RemoveCommas(transferred_bytes)
            IN  /\ queue' = IF sent THEN Append(queue, message) ELSE queue
                /\ emitted' = Append(emitted,
                       Emission(transferred_bytes, message,
                                IF sent THEN "sent" ELSE "publish_failed"))
                /\ PREVIOUS_POSITION' = IF StoiRaises(clean_bytes) THEN PREVIOUS_POSITION
                                        ELSE Stoi(clean_bytes)
                /\ UNCHANGED rsyncPc
    /\ UNCHANGED <<file, sideVars, scanVars, typeCount, totalChecks, calls, consVars,
                   file_name, executeTime>>

(* The transfer tool ends; the thread sleeps 1 ms before the next round. *)
RsyncExit ==
    /\ rsyncPc = "reading"
    /\ rsyncPc' = "sleep"
    /\ UNCHANGED <<file, sideVars, scanVars, typeCount, totalChecks, calls, queue, published,
                   consVars, file_name, executeTime, PREVIOUS_POSITION, emitted>>

(* Another publisher puts a message on the queue. *)
ExternalPublish(m) ==
    /\ consPc # "off"
    /\ published < MaxPublished
    /\ queue' = Append(queue, m)
    /\ published' = published + 1
    /\ UNCHANGED <<file, sideVars, scanVars, typeCount, totalChecks, calls, consVars, prodVars>>

-----------------------------------------------------------------------------
(* The consumer task: main's consumer_thread and the while loop of           *)
(* consumeMessages.                                                          *)

(* The consumer's subscription: amqp_basic_qos asks for a prefetch count of  *)
(* one, amqp_basic_consume subscribes with no_ack set.                       *)
prefetch_count == 1
no_ack == 1

(* Messages the consumer has taken from amqp_consume_message and not yet     *)
(* acknowledged or rejected.                                                 *)
InHand == IF consPc = "extract" THEN 1 ELSE 0

(* The messages of the queue the broker has sent to the consumer.  To a      *)
(* subscription with no_ack the broker sends every message as it is queued   *)
(* and the prefetch count is ignored; without no_ack it sends a message      *)
(* only while fewer than prefetch_count are unacknowledged.                  *)
Delivered ==
    IF no_ack = 1 THEN queue
    ELSE IF Len(queue) > 0 /\ InHand < prefetch_count THEN SubSeq(queue, 1, 1)
    ELSE <<>>

(* What the consumer sends for a delivery (how, requeue), with what happened *)
(* before: the outcome of savePrrRecords ("none": not called), the value it  *)
(* returned, and the number of records it was given.                         *)
Settlement(m, how, saved, returned, count) ==
    [msg |-> m, how |-> how, requeue |-> FALSE, saved |-> saved,
     returned |-> returned, count |-> count]

(* amqp_consume_message delivers a message that lacks temp_file_name or      *)
(* read_position: the branches that log "Missing or null" and continue.      *)
ConsumeMalformed ==
    /\ consPc = "wait"
    /\ queue # <<>>
    /\ LET m == Head(queue)
       IN  /\ ~HasField(m.temp_file_name) \/ ~HasField(m.read_position)
           /\ settled' = Append(settled, Settlement(m, "ack", "none", FALSE, 0))
    /\ queue' = Tail(queue)
    /\ UNCHANGED <<file, sideVars, scanVars, typeCount, totalChecks, calls, published,
                   consPc, envelope, sync_time, artifact, prodVars>>

(* The start of the range taken from the producer's cursor when the message *)
(* has no previous_position.                                                 *)
MessageStart_sharedCursor(m) ==
    IF HasField(m.previous_position) THEN PositionValue(m.previous_position)
    ELSE PREVIOUS_POSITION

(* consumeMessages: int startPos after the previous_position field is read. *)
MessageStart(m) ==
    IF HasField(m.previous_position) THEN PositionValue(m.previous_position) ELSE 0

(* amqp_consume_message delivers a message with both fields: the fields are  *)
(* read and extractPrrRecords is called.                                     *)
ConsumeCheckpoint ==
    /\ consPc = "wait"
    /\ queue # <<>>
    /\ LET m == Head(queue)
           sPos == MessageStart(m)
           ePos == PositionValue(m.read_position)
       IN  /\ HasField(m.temp_file_name) /\ HasField(m.read_position)
           /\ ~(HasField(m.previous_position) /\ PositionRaises(m.previous_position))
           /\ ~PositionRaises(m.read_position)
           /\ envelope' = m
           /\ \E now \in ReceiptTimes : sync_time' = SyncTimeValue(m.sync_time, now)
           /\ ExtractBegin("consumer", m.temp_file_name.val, sPos, ePos)
    /\ queue' = Tail(queue)
    /\ consPc' = "extract"
    /\ UNCHANGED <<file, sideVars, typeCount, totalChecks, calls, published, settled, artifact,
                   prodVars>>

(* amqp_consume_message delivers a message with both fields and std::stoi    *)
(* raises on one of its positions: the exception leaves consumeMessages and  *)
(* is caught in consumer_thread, which ends; nothing is sent for the message.*)
ConsumeRaise ==
    /\ consPc = "wait"
    /\ queue # <<>>
    /\ LET m == Head(queue)
       IN  /\ HasField(m.temp_file_name) /\ HasField(m.read_position)
           /\ \/ HasField(m.previous_position) /\ PositionRaises(m.previous_position)
              \/ PositionRaises(m.read_position)
           /\ envelope' = m
    /\ queue' = Tail(queue)
    /\ consPc' = "stopped"
    /\ UNCHANGED <<file, sideVars, scanVars, typeCount, totalChecks, calls, published,
                   sync_time, settled, artifact, prodVars>>

(* StdfExtractor::freePrrRecords: every record of the vector is deleted;     *)
(* the objects left afterwards.  The caller's vector is empty afterwards.    *)
freePrrRecords(records, live) == live - Len(records)

(* ConsumeSave that takes an empty result for a failure. *)
ConsumeSave_rejectEmpty(outcome) ==
    /\ consPc = "extract"
    /\ scanPc = "ret"
    /\ caller = "consumer"
    /\ LET saveSuccess == SaveReturns(outcome)
           processSuccess == saveSuccess /\ prrRecords # <<>>
       IN  settled' = Append(settled,
                 Settlement(envelope, IF processSuccess THEN "ack" ELSE "reject",
                            outcome, saveSuccess, Len(prrRecords)))
    /\ artifact' = SaveArtifact(prrRecords, sync_time, outcome, artifact)
    /\ prrRecords' = <<>>
    /\ liveRecords' = freePrrRecords(prrRecords, liveRecords)
    /\ scanPc' = "idle"
    /\ consPc' = "wait"
    /\ UNCHANGED <<file, sideVars, caller, reqName, reqStart, reqEnd, startPos, endPos, cursor,
                   headerReads, decoded, scanCond, typeCount, totalChecks, calls,
                   queue, published, envelope, sync_time, prodVars>>

(* The ways a scan ends other than by reaching endPos. *)
AbnormalEnds == {"open_failed", "unsupported_format", "read_error",
                 "invalid_skip_length", "suspicious_length"}

(* ConsumeSave that rejects the message of a scan that ended abnormally. *)
ConsumeSave_rejectAbnormal(outcome) ==
    /\ consPc = "extract"
    /\ scanPc = "ret"
    /\ caller = "consumer"
    /\ LET saveSuccess == SaveReturns(outcome)
           processSuccess == saveSuccess /\ scanCond \notin AbnormalEnds
       IN  settled' = Append(settled,
                 Settlement(envelope, IF processSuccess THEN "ack" ELSE "reject",
                            outcome, saveSuccess, Len(prrRecords)))
    /\ artifact' = SaveArtifact(prrRecords, sync_time, outcome, artifact)
    /\ prrRecords' = <<>>
    /\ liveRecords' = freePrrRecords(prrRecords, liveRecords)
    /\ scanPc' = "idle"
    /\ consPc' = "wait"
    /\ UNCHANGED <<file, sideVars, caller, reqName, reqStart, reqEnd, startPos, endPos, cursor,
                   headerReads, decoded, scanCond, typeCount, totalChecks, calls,
                   queue, published, envelope, sync_time, prodVars>>

(* ConsumeSave that acknowledges whatever savePrrRecords returned. *)
ConsumeSave_alwaysAck(outcome) ==
    /\ consPc = "extract"
    /\ scanPc = "ret"
    /\ caller = "consumer"
    /\ settled' = Append(settled,
           Settlement(envelope, "ack", outcome, SaveReturns(outcome), Len(prrRecords)))
    /\ artifact' = SaveArtifact(prrRecords, sync_time, outcome, artifact)
    /\ prrRecords' = <<>>
    /\ liveRecords' = freePrrRecords(prrRecords, liveRecords)
    /\ scanPc' = "idle"
    /\ consPc' = "wait"
    /\ UNCHANGED <<file, sideVars, caller, reqName, reqStart, reqEnd, startPos, endPos, cursor,
                   headerReads, decoded, scanCond, typeCount, totalChecks, calls,
                   queue, published, envelope, sync_time, prodVars>>

(* extractPrrRecords has returned: savePrrRecords, freePrrRecords, and the   *)
(* acknowledgment or the rejection of the message.                           *)
ConsumeSave(outcome) ==
    /\ consPc = "extract"
    /\ scanPc = "ret"
    /\ caller = "consumer"
    /\ LET saveSuccess == SaveReturns(outcome)
           processSuccess == saveSuccess
       IN  settled' = Append(settled,
                 Settlement(envelope, IF processSuccess THEN "ack" ELSE "reject",
                            outcome, saveSuccess, Len(prrRecords)))
    /\ artifact' = SaveArtifact(prrRecords, sync_time, outcome, artifact)
    /\ prrRecords' = <<>>
    /\ liveRecords' = freePrrRecords(prrRecords, liveRecords)
    /\ scanPc' = "idle"
    /\ consPc' = "wait"
    /\ UNCHANGED <<file, sideVars, caller, reqName, reqStart, reqEnd, startPos, endPos, cursor,
                   headerReads, decoded, scanCond, typeCount, totalChecks, calls,
                   queue, published, envelope, sync_time, prodVars>>

(* amqp_consume_message returns without a message after its 1 s timeout:     *)
(* the reply is not AMQP_RESPONSE_NORMAL, the loop is left and the           *)
(* connection closed.                                                        *)
ConsumeTimeout ==
    /\ consPc = "wait"
    /\ queue = <<>>
    /\ consPc' = "stopped"
    /\ UNCHANGED <<file, sideVars, scanVars, typeCount, totalChecks, calls, queue, published,
                   envelope, sync_time, settled, artifact, prodVars>>

PipeOff ==
    /\ queue = <<>>
    /\ published = 0
    /\ consPc = "off"
    /\ envelope = NoMessage
    /\ sync_time = 0
    /\ settled = <<>>
    /\ artifact = NoArtifact
    /\ rsyncPc = "off"
    /\ file_name = ""
    /\ executeTime = <<>>
    /\ PREVIOUS_POSITION = 0
    /\ emitted = <<>>

-----------------------------------------------------------------------------
(* Logger::log called by the two tasks main starts.  main has called         *)
(* LOG.init(appLogPath, LogLevel::DEBUG) before it starts them.              *)
Tasks == {"consumer", "producer"}

DEBUG == 0
INFO == 1
WARNING == 2
ERROR == 3
CRITICAL == 4
LogLevels == {DEBUG, INFO, WARNING, ERROR, CRITICAL}

(* Logger::minLevel_ after LOG.init in main. *)
minLevel_ == DEBUG

MaxLogs == 2

(* The statements of Logger::log that write to std::cout and logFile_. *)
WriteSection == {"cout", "cout_endl", "file", "file_endl"}

(* One insertion into a stream: the formatted message or std::endl. *)
Piece(t, what) == [task |-> t, what |-> what]

(* Logger::log is entered: the level test, then the task is at the           *)
(* lock_guard.                                                               *)
LogEnter(t, level) ==
    /\ logPc[t] = "out"
    /\ logsLeft[t] > 0
    /\ IF level < minLevel_
       THEN /\ logsLeft' = [logsLeft EXCEPT ![t] = @ - 1]
            /\ UNCHANGED logPc
       ELSE /\ logPc' = [logPc EXCEPT ![t] = "lock"]
            /\ UNCHANGED logsLeft
    /\ UNCHANGED <<mutex_, console, logFile_>>
    /\ UNCHANGED notLogVars

(* A lock_guard that does not wait for the mutex. *)
LogLock_noWait(t) ==
    /\ logPc[t] = "lock"
    /\ mutex_' = t
    /\ logPc' = [logPc EXCEPT ![t] = "cout"]
    /\ UNCHANGED <<logsLeft, console, logFile_>>
    /\ UNCHANGED notLogVars

(* std::lock_guard<std::mutex> lock(mutex_): blocks while another task       *)
(* holds the mutex.                                                          *)
LogLock(t) ==
    /\ logPc[t] = "lock"
    /\ mutex_ = "free"
    /\ mutex_' = t
    /\ logPc' = [logPc EXCEPT ![t] = "cout"]
    /\ UNCHANGED <<logsLeft, console, logFile_>>
    /\ UNCHANGED notLogVars

(* std::cout << formattedMessage *)
LogConsoleMessage(t) ==
    /\ logPc[t] = "cout"
    /\ console' = Append(console, Piece(t, "message"))
    /\ logPc' = [logPc EXCEPT ![t] = "cout_endl"]
    /\ UNCHANGED <<mutex_, logsLeft, logFile_>>
    /\ UNCHANGED notLogVars

(* << std::endl, then the test initialized_ && logFile_.is_open() *)
LogConsoleEndl(t) ==
    /\ logPc[t] = "cout_endl"
    /\ console' = Append(console, Piece(t, "endl"))
    /\ logPc' = [logPc EXCEPT ![t] = IF logFile_.is_open THEN "file" ELSE "unlock"]
    /\ UNCHANGED <<mutex_, logsLeft, logFile_>>
    /\ UNCHANGED notLogVars

(* logFile_ << formattedMessage *)
LogFileMessage(t) ==
    /\ logPc[t] = "file"
    /\ logFile_' = [logFile_ EXCEPT !.text = Append(@, Piece(t, "message"))]
    /\ logPc' = [logPc EXCEPT ![t] = "file_endl"]
    /\ UNCHANGED <<mutex_, logsLeft, console>>
    /\ UNCHANGED notLogVars

(* << std::endl; logFile_.flush() *)
LogFileEndl(t) ==
    /\ logPc[t] = "file_endl"
    /\ logFile_' = [logFile_ EXCEPT !.text = Append(@, Piece(t, "endl"))]
    /\ logPc' = [logPc EXCEPT ![t] = "unlock"]
    /\ UNCHANGED <<mutex_, logsLeft, console>>
    /\ UNCHANGED notLogVars

(* The end of Logger::log: the lock_guard releases the mutex. *)
LogUnlock(t) ==
    /\ logPc[t] = "unlock"
    /\ mutex_' = "free"
    /\ logPc' = [logPc EXCEPT ![t] = "out"]
    /\ logsLeft' = [logsLeft EXCEPT ![t] = @ - 1]
    /\ UNCHANGED <<console, logFile_>>
    /\ UNCHANGED notLogVars

LoggerOff ==
    /\ mutex_ = "free"
    /\ logPc = [t \in Tasks |-> "out"]
    /\ logsLeft = [t \in Tasks |-> 0]
    /\ console = <<>>
    /\ logFile_ = [is_open |-> FALSE, text |-> <<>>]

-----------------------------------------------------------------------------
(* Direct calls of extractPrrRecords on one file: a first call over any      *)
(* range, then either the same call again, or the call over the range that   *)
(* continues the first one, [0,N) then [N,M), followed by the call over the  *)
(* whole of it, [0,M).                                                       *)

Positions(f) == IF f \in ScenarioFiles THEN {0, 40, 90, 100, 130}
                ELSE -1..(Size(f) + 1)

FirstCalls ==
    { <<"f", s, e>> : s \in Positions(file), e \in Positions(file) }
      \cup { <<"nofile", 0, -1>> }

SecondCalls ==
    { <<calls[1].name, calls[1].s, calls[1].e>> }
      \cup { <<calls[1].name, calls[1].e, e>> :
               e \in { x \in Positions(file) :
                         /\ calls[1].s = 0 /\ calls[1].e > 0
                         /\ x > calls[1].e /\ x <= Size(file) } }

ThirdCalls ==
    IF calls[2].s # calls[1].s
    THEN { <<calls[1].name, calls[1].s, calls[2].e>> }
    ELSE {}

NextCalls ==
    CASE Len(calls) = 0 -> FirstCalls
      [] Len(calls) = 1 -> SecondCalls
      [] Len(calls) = 2 -> ThirdCalls
      [] OTHER -> {}

TestCall ==
    /\ scanPc = "idle"
    /\ \E c \in NextCalls : ExtractBegin("test", c[1], c[2], c[3])
    /\ UNCHANGED <<file, sideVars, typeCount, totalChecks, calls, pipeVars>>

TestReturn ==
    /\ scanPc = "ret"
    /\ caller = "test"
    /\ calls' = Append(calls, [name |-> reqName, s |-> reqStart, e |-> reqEnd,
                               sPos |-> startPos, ePos |-> endPos,
                               ret |-> prrRecords, cond |-> scanCond,
                               reads |-> headerReads, decoded |-> decoded,
                               checksAfter |-> totalChecks])
    /\ scanPc' = "idle"
    /\ UNCHANGED <<file, sideVars, caller, reqName, reqStart, reqEnd, startPos, endPos, cursor,
                   prrRecords, headerReads, decoded, scanCond, liveRecords,
                   typeCount, totalChecks, pipeVars>>

ScanIdle ==
    /\ scanPc = "idle"
    /\ caller = "none"
    /\ reqName = "f"
    /\ reqStart = 0
    /\ reqEnd = 0
    /\ startPos = 0
    /\ endPos = 0
    /\ cursor = 0
    /\ prrRecords = <<>>
    /\ headerReads = 0
    /\ decoded = 0
    /\ scanCond = "none"
    /\ liveRecords = 0
    /\ typeCount = [k \in Kinds |-> 0]
    /\ totalChecks = 0
    /\ calls = <<>>

InitScan ==
    /\ file \in Files
    /\ ScanIdle
    /\ PipeOff
    /\ SanitizeOff
    /\ LoggerOff

NextScan ==
    \/ TestCall
    \/ TestReturn
    \/ ExtractLoop

SpecScan == InitScan /\ [][NextScan]_vars

(* The process: both tasks started by main, on a file in the landing         *)
(* directory.                                                                *)
LandingFiles == { f \in SampleFiles : isPrrRecordType(f.fill.kind, [k \in Kinds |-> 0]) }

InitPipe ==
    /\ file \in LandingFiles
    /\ ScanIdle
    /\ queue = <<>>
    /\ published = 0
    /\ consPc = "wait"
    /\ envelope = NoMessage
    /\ sync_time = 0
    /\ settled = <<>>
    /\ artifact = NoArtifact
    /\ rsyncPc = "sleep"
    /\ file_name = ""
    /\ executeTime = <<>>
    /\ PREVIOUS_POSITION = 0
    /\ emitted = <<>>
    /\ SanitizeOff
    /\ LoggerOff

NextPipe ==
    \/ RsyncStart
    \/ RsyncFileLine
    \/ \E b \in ReportedBytes, sent \in BOOLEAN : RsyncCompletion(b, sent)
    \/ RsyncExit
    \/ \E m \in ExternalMessages : ExternalPublish(m)
    \/ ConsumeMalformed
    \/ ConsumeCheckpoint
    \/ ConsumeRaise
    \/ ExtractLoop
    \/ \E outcome \in {"written", "open_failed", "raised"} : ConsumeSave(outcome)
    \/ ConsumeTimeout

Spec == InitPipe /\ [][NextPipe]_vars

(* Calls of sanitizeString on C strings. *)
InitSanitize ==
    /\ file \in LandingFiles
    /\ ScanIdle
    /\ PipeOff
    /\ LoggerOff
    /\ input \in CStrings
    /\ sanitized = NotCalled

NextSanitize == SanitizeCall

SpecSanitize == InitSanitize /\ [][NextSanitize]_vars

(* The two tasks, each making MaxLogs calls of Logger::log; the log file     *)
(* opened in LOG.init or not.                                                *)
InitLog ==
    /\ file \in LandingFiles
    /\ ScanIdle
    /\ PipeOff
    /\ SanitizeOff
    /\ mutex_ = "free"
    /\ logPc = [t \in Tasks |-> "out"]
    /\ logsLeft = [t \in Tasks |-> MaxLogs]
    /\ console = <<>>
    /\ \E open \in BOOLEAN : logFile_ = [is_open |-> open, text |-> <<>>]

NextLog ==
    \/ \E t \in Tasks, level \in LogLevels : LogEnter(t, level)
    \/ \E t \in Tasks : LogLock(t)
    \/ \E t \in Tasks : LogConsoleMessage(t)
    \/ \E t \in Tasks : LogConsoleEndl(t)
    \/ \E t \in Tasks : LogFileMessage(t)
    \/ \E t \in Tasks : LogFileEndl(t)
    \/ \E t \in Tasks : LogUnlock(t)

SpecLog == InitLog /\ [][NextLog]_vars

-----------------------------------------------------------------------------
(* What extractPrrRecords hands to its caller: the vector, nothing else. *)
Returned(c) == c.ret

IsSplit ==
    /\ Len(calls) = 3
    /\ calls[1].name = "f"
    /\ calls[1].s = 0 /\ calls[1].e > 0
    /\ calls[2].s = calls[1].e /\ calls[2].e > calls[2].s /\ calls[2].e <= Size(file)
    /\ calls[3].s = 0 /\ calls[3].e = calls[2].e

(* C1: every record in the result of a call has its whole extent, from the   *)
(* first byte of its header to the last byte of its payload, inside the      *)
(* validated range [startPos, endPos), which lies inside [0, fileSize].      *)
C1_ExtentInRange ==
    \A i \in 1..Len(prrRecords) :
        /\ 0 <= startPos
        /\ startPos <= prrRecords[i].pos
        /\ prrRecords[i].pos + headerSize + prrRecords[i].len <= endPos
        /\ endPos <= Size(file)

C1_Witness ==
    /\ scanPc = "ret"
    /\ Len(prrRecords) >= 1
    /\ startPos > 0
    /\ endPos < Size(file)
    /\ \E p \in startPos..(endPos - 1) :
          /\ IsBoundary(file, p)
          /\ p + headerSize + RecAt(file, p).len > endPos

(* C2: on a file that starts with a valid file-attributes record, the        *)
(* results of the calls over [0,N) and [N,M), concatenated, are the result   *)
(* of the call over [0,M), for 0 < N < M <= fileSize.                        *)
C2_SplitEqualsWhole ==
    (IsSplit /\ FarAccepted(file)) =>
        Returned(calls[1]) \o Returned(calls[2]) = Returned(calls[3])

(* C4: in the file with target records at [4,40), [40,90) and [90,130), the  *)
(* call over [0,100) returns exactly the first two records and the call over *)
(* [100,130) returns exactly the third.                                      *)
C4_Scenario ==
    file \in ScenarioFiles =>
        \A i \in 1..Len(calls) :
            /\ (calls[i].s = 0 /\ calls[i].e = 100) =>
                  /\ Len(calls[i].ret) = 2
                  /\ calls[i].ret[1].pos = 4
                  /\ calls[i].ret[2].pos = 40
            /\ (calls[i].s = 100 /\ calls[i].e = 130) =>
                  /\ Len(calls[i].ret) = 1
                  /\ calls[i].ret[1].pos = 90

(* C8: a call with 0 <= endPos <= startPos returns an empty vector, reads no *)
(* record header, and ends with the invalid-range condition.                 *)
C8_DegenerateRange ==
    (caller = "test" /\ reqName = "f" /\ 0 <= reqEnd /\ reqEnd <= reqStart) =>
        /\ prrRecords = <<>>
        /\ headerReads = 0
        /\ decoded = 0
        /\ scanPc # "loop"
        /\ scanCond = "invalid_range"

C8_Witness ==
    /\ scanPc = "ret"
    /\ caller = "test"
    /\ 0 < reqEnd /\ reqEnd <= reqStart /\ reqStart < Size(file)
    /\ \E i \in 2..Len(file.recs) : isPrrRecordType(file.recs[i].kind, typeCount)

(* C9: a call from offset 0 on a file whose first record is not a valid      *)
(* file-attributes record returns zero records, decodes no target record,    *)
(* and what it returns differs from what a scan that found no target record  *)
(* returns.                                                                  *)
C9_UnsupportedFormatSignalled ==
    \A i \in 1..Len(calls) :
        calls[i].cond = "unsupported_format" =>
            /\ calls[i].ret = <<>>
            /\ calls[i].decoded = 0
            /\ \A j \in 1..Len(calls) :
                  (calls[j].cond = "complete" /\ calls[j].decoded = 0) =>
                      Returned(calls[i]) # Returned(calls[j])

(* C3: two calls with the same file and the same range return the same       *)
(* vector, and savePrrRecords writes the same text for both at the same      *)
(* sync_time, whatever the classifier counted in between.                    *)
C3_Idempotent ==
    \A i, j \in 1..Len(calls) :
        (calls[i].name = calls[j].name /\ calls[i].s = calls[j].s
                                       /\ calls[i].e = calls[j].e) =>
            /\ Returned(calls[i]) = Returned(calls[j])
            /\ \A t \in ReceiptTimes :
                  SaveContent(Returned(calls[i]), t) = SaveContent(Returned(calls[j]), t)

C3_Witness ==
    /\ Len(calls) = 2
    /\ calls[1].s = calls[2].s /\ calls[1].e = calls[2].e
    /\ Len(calls[1].ret) >= 1
    /\ calls[1].checksAfter >= 1
    /\ calls[2].checksAfter > calls[1].checksAfter

(* C5: the consumer task stays alive while the process runs, so no message   *)
(* published to the queue is left there with the consumer task gone.         *)
C5_PublishedIsConsumed == ~(consPc = "stopped" /\ queue # <<>>)

CarriesBoth(m) == HasField(m.temp_file_name) /\ HasField(m.read_position)

(* C6: a message with temp_file_name and read_position is acknowledged       *)
(* exactly when savePrrRecords returned true for it; when the write failed   *)
(* or the serializer raised it is rejected with requeue disabled.            *)
C6_AckIffSaved ==
    \A i \in 1..Len(settled) :
        CarriesBoth(settled[i].msg) =>
            /\ settled[i].saved # "none"
            /\ (settled[i].how = "ack") <=> (settled[i].returned = TRUE)
            /\ settled[i].saved \in {"open_failed", "raised"} =>
                  (settled[i].how = "reject" /\ settled[i].requeue = FALSE)

C6_Witness ==
    \E i, j \in 1..Len(settled) :
        /\ CarriesBoth(settled[i].msg) /\ settled[i].how = "ack"
        /\ settled[i].saved = "written"
        /\ CarriesBoth(settled[j].msg) /\ settled[j].how = "reject"
        /\ settled[j].saved = "open_failed"

(* C7: a message without temp_file_name or without read_position is         *)
(* rejected without requeue and no extraction pass is run for it.            *)
C7_MalformedRejected ==
    \A i \in 1..Len(settled) :
        ~CarriesBoth(settled[i].msg) =>
            /\ settled[i].how = "reject"
            /\ settled[i].requeue = FALSE
            /\ settled[i].saved = "none"

(* C10: after savePrrRecords has written an empty result, the output file    *)
(* holds exactly the empty JSON array and is valid JSON.                     *)
C10_EmptyResultIsEmptyArray ==
    \A i \in 1..Len(settled) :
        (/\ settled[i].saved = "written"
         /\ settled[i].count = 0
         /\ \A j \in (i + 1)..Len(settled) : settled[j].saved # "written") =>
            /\ artifact.exists
            /\ artifact.content = <<ArrayDump(<<>>)>>
            /\ IsValidJson(artifact.content)

-----------------------------------------------------------------------------
(* A step of the scan loop that read a header is a step of ExtractLoop in    *)
(* which the loop test held; h is the header it read at the cursor.          *)
ReadsHeader == scanPc = "loop" /\ headerReads' = headerReads + 1

ArtifactKeys == {"head_number", "site_number", "test_count", "hard_bin", "soft_bin",
                 "x_coord", "y_coord", "test_time", "part_flags", "part_id",
                 "part_text", "last_modified", "sot", "eot"}
FlagKeys == {"superseded", "abnormal", "failed", "invalid_flag"}

(* The elements of the JSON array savePrrRecords writes for a result. *)
ArrayOf(records, t) ==
    LET content == SaveContent(records, t)
    IN  content[Len(content)].elems

(* C16: every element of the array written for the result of a call has      *)
(* exactly the fourteen keys of the artifact, part_id and part_text          *)
(* included, and part_flags has exactly its four keys.                       *)
C16_ElementKeys ==
    \A i \in 1..Len(calls) : \A t \in ReceiptTimes :
        LET elems == ArrayOf(Returned(calls[i]), t)
        IN  \A k \in 1..Len(elems) :
                /\ DOMAIN elems[k] = ArtifactKeys
                /\ DOMAIN elems[k].part_flags = FlagKeys

(* C17: a record with header at p and length L in 0..100000 that is out of   *)
(* range is not decoded, the cursor moves to p + 4 + L, and the loop goes on.*)
C17_OutOfRangeSkipped ==
    [][ (/\ ReadsHeader
         /\ HeaderReadable(file, cursor)
         /\ RecAt(file, cursor).len \in 0..MaxRecordLen
         /\ ~isInRange(cursor + headerSize, RecAt(file, cursor).len, startPos, endPos))
        => (/\ decoded' = decoded
            /\ prrRecords' = prrRecords
            /\ cursor' = cursor + headerSize + RecAt(file, cursor).len
            /\ scanPc' = "loop") ]_vars

(* C18: when the decoder raises on an in-range target record with header at  *)
(* p and length L, the record is not added to the result, the cursor is put  *)
(* at p + 4 + L, and the loop goes on.                                       *)
C18_DecodeFailureSkipped ==
    [][ (/\ ReadsHeader
         /\ HeaderReadable(file, cursor)
         /\ isInRange(cursor + headerSize, RecAt(file, cursor).len, startPos, endPos)
         /\ isPrrRecordType(RecAt(file, cursor).kind, typeCount)
         /\ PrrThrows(RecAt(file, cursor).payload))
        => (/\ prrRecords' = prrRecords
            /\ cursor' = cursor + headerSize + RecAt(file, cursor).len
            /\ scanPc' = "loop") ]_vars

(* The decoder raised on the first record of the range and the scan went on  *)
(* to return the record behind it.                                           *)
C18_Witness ==
    /\ scanPc = "ret"
    /\ caller = "test"
    /\ IsBoundary(file, startPos)
    /\ PrrThrows(RecAt(file, startPos).payload)
    /\ isPrrRecordType(RecAt(file, startPos).kind, typeCount)
    /\ Len(prrRecords) >= 1
    /\ prrRecords[1].pos = startPos + headerSize + RecAt(file, startPos).len

PathologicalLength(len) == len < 0 \/ len > MaxRecordLen

(* C19: when a header read fails, or the header read carries a negative      *)
(* length or one above 100000, the scan ends at once with the records        *)
(* accumulated so far, none dropped and none added, and they are what the    *)
(* call returns.                                                             *)
C19_CorruptHeaderStops ==
    [][ /\ (/\ ReadsHeader
            /\ \/ ~HeaderReadable(file, cursor)
               \/ PathologicalLength(RecAt(file, cursor).len))
           => (/\ scanPc' = "ret"
               /\ prrRecords' = prrRecords
               /\ decoded' = decoded)
        /\ (scanPc = "ret" /\ Len(calls') = Len(calls) + 1)
           => Returned(calls'[Len(calls')]) = prrRecords ]_vars

(* A scan that had kept a record stopped at a header with a pathological     *)
(* length while records of the range were still ahead.                       *)
C19_Witness ==
    /\ scanPc = "ret"
    /\ scanCond = "invalid_skip_length"
    /\ Len(prrRecords) >= 1
    /\ HeaderReadable(file, cursor - headerSize)
    /\ PathologicalLength(RecAt(file, cursor - headerSize).len)
    /\ \E p \in cursor..(endPos - 1) : IsBoundary(file, p)

Plausible(prr) ==
    /\ prr.hardbin >= MinBin
    /\ prr.softbin >= MinBin
    /\ prr.head_number <= MaxHeadSite
    /\ prr.site_number <= MaxHeadSite

(* C20: every record in the result of a call, and every element written for  *)
(* it, has hard bin and soft bin >= -10000 and head and site number <= 255.  *)
C20_ResultPlausible ==
    /\ \A i \in 1..Len(prrRecords) : Plausible(ParsePrr(prrRecords[i].payload))
    /\ \A i \in 1..Len(calls) : \A t \in ReceiptTimes :
          LET elems == ArrayOf(Returned(calls[i]), t)
          IN  \A k \in 1..Len(elems) :
                  /\ elems[k].hard_bin >= MinBin
                  /\ elems[k].soft_bin >= MinBin
                  /\ elems[k].head_number <= MaxHeadSite
                  /\ elems[k].site_number <= MaxHeadSite

(* The scan began at the in-range target record with the implausible hard   *)
(* bin, decoded it, and ended without it in the result.                      *)
C20_Witness ==
    /\ scanPc = "ret"
    /\ caller = "test"
    /\ IsBoundary(file, startPos)
    /\ RecAt(file, startPos).payload = "badbin"
    /\ isPrrRecordType(RecAt(file, startPos).kind, typeCount)
    /\ isInRange(startPos + headerSize, RecAt(file, startPos).len, startPos, endPos)
    /\ decoded >= 1
    /\ \A k \in 1..Len(prrRecords) : prrRecords[k].pos # startPos

-----------------------------------------------------------------------------
(* C11: a message with both fields whose scan found no target record is      *)
(* acknowledged when the output file can be written: savePrrRecords returns  *)
(* true for the empty result and the consumer sends an acknowledge.          *)
C11_EmptyResultAcknowledged ==
    \A i \in 1..Len(settled) :
        (/\ CarriesBoth(settled[i].msg)
         /\ settled[i].count = 0
         /\ settled[i].saved = "written") =>
            /\ settled[i].returned = TRUE
            /\ settled[i].how = "ack"

(* The producer's checkpoint for the range [0,6), which holds the            *)
(* file-attributes record only, was saved and acknowledged.                  *)
C11_Witness ==
    \E i \in 1..Len(settled) :
        /\ settled[i].msg.read_position = Field("int", <<"6">>)
        /\ settled[i].msg.previous_position = Field("int", <<"0">>)
        /\ settled[i].count = 0
        /\ settled[i].saved = "written"
        /\ settled[i].how = "ack"

(* The decimal text of the offset a position field encodes. *)
OffsetText(f) == RemoveCommas(f.val)

(* C12: whichever way a message encodes a non-negative offset v (integer,    *)
(* decimal string, string with commas), the range passed to the scanner has  *)
(* v at that end, and no encoding makes the consumer drop the message.       *)
C12_EncodingsAgree ==
    /\ consPc = "extract" =>
          /\ reqEnd >= 0
          /\ to_string(reqEnd) = OffsetText(envelope.read_position)
          /\ HasField(envelope.previous_position) =>
                /\ reqStart >= 0
                /\ to_string(reqStart) = OffsetText(envelope.previous_position)
    /\ ~(/\ consPc = "stopped"
         /\ CarriesBoth(envelope)
         /\ PositionRaises(envelope.read_position))

(* C13: every completion line yields a checkpoint, and the checkpoint's      *)
(* previous_position is the read_position of the checkpoint before it, 0     *)
(* for the first.                                                            *)
C13_CheckpointChain ==
    \A i \in 1..Len(emitted) :
        /\ emitted[i].outcome # "raised"
        /\ emitted[i].msg.previous_position.val =
              IF i = 1 THEN <<"0">> ELSE emitted[i - 1].msg.read_position.val

(* C14: in the checkpoints the producer builds, read_position is never less  *)
(* than previous_position, and previous_position never decreases from one    *)
(* checkpoint to the next.                                                   *)
C14_MonotonicProgress ==
    \A i \in 1..Len(emitted) :
        emitted[i].outcome # "raised" =>
            /\ PositionValue(emitted[i].msg.read_position)
                  >= PositionValue(emitted[i].msg.previous_position)
            /\ \A j \in 1..(i - 1) :
                  emitted[j].outcome # "raised" =>
                      PositionValue(emitted[j].msg.previous_position)
                          <= PositionValue(emitted[i].msg.previous_position)

(* C15: at most one message is at the consumer without having been           *)
(* acknowledged or rejected: the one in hand, or one the broker has sent     *)
(* ahead.                                                                    *)
C15_SingleMessageInFlight == Len(Delivered) + InHand <= 1

-----------------------------------------------------------------------------
TargetKinds == {16, 25, 185}

(* C21: extractPrrRecords terminates: every evaluation of its loop either    *)
(* ends the scan or leaves the cursor strictly further in the file, and the  *)
(* loop runs on only while the cursor is before endPos.                      *)
C21_EveryStepAdvances ==
    [][scanPc = "loop" =>
          \/ scanPc' = "ret"
          \/ cursor < endPos /\ cursor' > cursor]_vars

(* A scan that passed a record of length zero and ended on a header it       *)
(* could not read.                                                           *)
C21_Witness ==
    /\ scanPc = "ret"
    /\ caller = "test"
    /\ scanCond = "read_error"
    /\ headerReads >= 2
    /\ \E p \in startPos..cursor :
          /\ p + headerSize = cursor
          /\ HeaderReadable(file, p)
          /\ RecAt(file, p).len = 0

(* C22: the range a call scans is the requested one with a negative startPos *)
(* replaced by 0 and an endPos that is negative or beyond the file size      *)
(* replaced by the file size; the call returns "invalid range" exactly when  *)
(* the range so obtained is empty, and otherwise it lies in [0, fileSize].   *)
C22_RangeClamped ==
    (caller = "test" /\ scanCond # "open_failed") =>
        /\ startPos = (IF reqStart < 0 THEN 0 ELSE reqStart)
        /\ endPos = (IF reqEnd < 0 \/ reqEnd > Size(file) THEN Size(file) ELSE reqEnd)
        /\ (scanCond = "invalid_range") <=> (startPos >= endPos)
        /\ scanCond # "invalid_range" => 0 <= startPos /\ endPos <= Size(file)

(* A call with a negative startPos and an endPos beyond the file that        *)
(* returned a record.                                                        *)
C22_Witness ==
    /\ scanPc = "ret"
    /\ caller = "test"
    /\ reqStart < 0
    /\ reqEnd > Size(file)
    /\ startPos = 0
    /\ endPos = Size(file)
    /\ prrRecords # <<>>

(* C23: with whatever the frequency table holds, isPrrRecordType is true     *)
(* for the kinds 16, 25 and 185 and for no other kind.                       *)
C23_ClassifierFixed ==
    \A k \in Kinds : isPrrRecordType(k, typeCount) <=> k \in TargetKinds

(* The classifier has counted another kind twice and still refuses it. *)
C23_Witness ==
    /\ totalChecks >= 2
    /\ typeCount[HBR_TYPE] >= 2
    /\ ~isPrrRecordType(HBR_TYPE, typeCount)

(* C24: the frequency table counts every classification, those of the target *)
(* kinds too: it holds at least as many observations of target kinds as the  *)
(* running call has decoded records.                                         *)
C24_TableCountsTargets ==
    decoded <= typeCount[PRR_TYPE] + typeCount[PRR_TYPE_ALT1] + typeCount[PRR_TYPE_ALT2]

-----------------------------------------------------------------------------
(* What the text of a C string is to become: a byte outside 32..126 is a     *)
(* question mark, a backslash, a double quote and a slash get a backslash    *)
(* in front, every other byte stays.                                         *)
RECURSIVE Escaped(_)
Escaped(s) ==
    IF s = <<>> THEN <<>>
    ELSE LET b == Head(s)
         IN  (CASE b < 32 \/ b > 126 -> <<63>>
                [] b \in {92, 34, 47} -> <<92, b>>
                [] OTHER -> <<b>>) \o Escaped(Tail(s))

(* C25: sanitizeString returns the bytes of its input in order, each byte    *)
(* outside 32..126 replaced by '?', each backslash, double quote and slash   *)
(* preceded by a backslash, the others unchanged; the result holds printable *)
(* ASCII only, and for a null pointer it is empty.                           *)
C25_SanitizedAsSpecified ==
    sanitized.called =>
        /\ sanitized.text = (IF input.null THEN <<>> ELSE Escaped(input.chars))
        /\ \A i \in 1..Len(sanitized.text) : sanitized.text[i] \in 32..126

(* A call on a slash followed by a tabulator. *)
C25_Witness ==
    /\ sanitized.called
    /\ input = [null |-> FALSE, chars |-> <<47, 9>>]
    /\ sanitized.text = <<92, 47, 63>>

(* The sync_time the consumer holds for the message m received at time now,  *)
(* as the spec gives it: the message's time, or the receipt time when the    *)
(* field is missing or is a text that does not parse.                        *)
TimeOf(m, now) ==
    IF HasField(m.sync_time) /\ ~(m.sync_time.enc = "str" /\ StrptimeFails(m.sync_time.val))
    THEN DecimalValue(m.sync_time.val, 0)
    ELSE now

(* The elements of the array in the output file. *)
ArtifactElems == artifact.content[Len(artifact.content)].elems

(* C26: in the file written for a message, every element has last_modified   *)
(* and eot equal to the sync_time of the message and sot equal to it less    *)
(* the whole seconds of test_time, so sot <= eot when test_time is not       *)
(* negative.                                                                 *)
C26_Timestamps ==
    (consPc = "wait" /\ settled # <<>> /\ settled[Len(settled)].saved = "written") =>
        \E now \in ReceiptTimes :
            LET t == TimeOf(settled[Len(settled)].msg, now)
            IN  \A k \in 1..Len(ArtifactElems) :
                    LET e == ArtifactElems[k]
                    IN  /\ e.last_modified = t
                        /\ e.eot = t
                        /\ e.sot = t - (e.test_time \div 1000)
                        /\ e.test_time >= 0 => e.sot <= e.eot

(* A file written for a message that carries a sync_time, with a record      *)
(* whose test took whole seconds.                                            *)
C26_Witness ==
    /\ consPc = "wait"
    /\ settled # <<>>
    /\ settled[Len(settled)].saved = "written"
    /\ HasField(settled[Len(settled)].msg.sync_time)
    /\ Len(ArtifactElems) >= 1
    /\ ArtifactElems[1].test_time >= 1000
    /\ ArtifactElems[1].sot < ArtifactElems[1].eot

C28_WritesExclusive ==
    \A t \in Tasks :
        logPc[t] \in WriteSection =>
            /\ mutex_ = t
            /\ \A u \in Tasks \ {t} : logPc[u] \notin WriteSection

(* One task has written its message to the console and not yet the end of    *)
(* line while the other waits for the mutex.                                 *)
C28_Witness ==
    \E t \in Tasks : \E u \in Tasks \ {t} :
        /\ logPc[t] = "cout_endl"
        /\ logPc[u] = "lock"
        /\ console # <<>>

(* C29: every StdfPRR object made during a scan is deleted once: the objects *)
(* alive are those of the result in hand, and when a message has been        *)
(* processed the result is empty and no object is left.                      *)
C29_RecordsReleased ==
    /\ liveRecords = Len(prrRecords)
    /\ consPc = "wait" => prrRecords = <<>> /\ liveRecords = 0

(* C30: a message without previous_position is scanned from 0, a message     *)
(* without sync_time or with a sync_time text that does not parse gets the   *)
(* receipt time, and every message that has temp_file_name and               *)
(* read_position is extracted and saved, and rejected only when the save     *)
(* failed.                                                                   *)
C30_OptionalFieldsDefault ==
    /\ consPc = "extract" =>
          /\ ~HasField(envelope.previous_position) => reqStart = 0
          /\ (\/ ~HasField(envelope.sync_time)
              \/ envelope.sync_time.enc = "str" /\ StrptimeFails(envelope.sync_time.val))
                => sync_time \in ReceiptTimes
    /\ \A i \in 1..Len(settled) :
          LET m == settled[i].msg
          IN  (HasField(m.temp_file_name) /\ HasField(m.read_position)) =>
                  /\ settled[i].saved # "none"
                  /\ settled[i].how = "reject" => ~settled[i].returned

(* The consumer extracts for a message whose sync_time does not parse, with  *)
(* the receipt time.                                                         *)
C30_Witness ==
    /\ consPc = "extract"
    /\ envelope.sync_time.enc = "str"
    /\ StrptimeFails(envelope.sync_time.val)
    /\ sync_time \in ReceiptTimes

-----------------------------------------------------------------------------
(* C31: every message the consumer has taken from the queue has been         *)
(* acknowledged or rejected when the consumer is not working on it, and no   *)
(* message leaves the consumer stopped with the message unsettled.           *)
C31_EveryMessageSettled ==
    consPc \in {"wait", "stopped"} =>
        \/ envelope = NoMessage
        \/ \E i \in 1..Len(settled) : settled[i].msg = envelope

(* The offset behind the last record of the file. *)
EndOfRecords(f) == Extent(f.recs, Len(f.recs))

(* C32: in a scan that starts at a record boundary the cursor is at a record *)
(* boundary, or behind the last record, whenever the loop is about to read   *)
(* a header.                                                                 *)
C32_CursorAtBoundary ==
    (scanPc = "loop" /\ caller = "test" /\ IsBoundary(file, startPos)) =>
        IsBoundary(file, cursor) \/ cursor = EndOfRecords(file)

(* The records of the file from startPos on are all well formed: lengths in  *)
(* 0..100000 and payloads the decoder accepts.                               *)
WellFormedFrom(f, s) ==
    \A i \in 1..Len(f.recs) :
        Extent(f.recs, i - 1) >= s =>
            /\ ~PathologicalLength(f.recs[i].len)
            /\ ~PrrThrows(f.recs[i].payload)

(* C33: a scan of a well-formed file from a record boundary returns every    *)
(* target record at p >= startPos with p + 4 + L <= endPos that passes the   *)
(* plausibility filter.                                                      *)
C33_InRangeTargetsReturned ==
    (/\ scanPc = "ret" /\ caller = "test"
     /\ scanCond \notin {"open_failed", "invalid_range", "unsupported_format"}
     /\ IsBoundary(file, startPos)
     /\ WellFormedFrom(file, startPos)) =>
        \A i \in 1..Len(file.recs) :
            LET p == Extent(file.recs, i - 1)
                r == file.recs[i]
            IN  (/\ p >= startPos
                 /\ p + headerSize + r.len <= endPos
                 /\ r.kind \in TargetKinds
                 /\ Plausible(ParsePrr(r.payload))) =>
                    \E k \in 1..Len(prrRecords) : prrRecords[k].pos = p

(* C34: a message whose scan ended abnormally is acknowledged exactly when   *)
(* the output file was written for it.                                       *)
C34_AbnormalScanAcknowledged ==
    (/\ consPc = "wait" /\ scanPc = "idle" /\ caller = "consumer"
     /\ settled # <<>>
     /\ settled[Len(settled)].saved # "none"
     /\ scanCond \in AbnormalEnds) =>
        (settled[Len(settled)].how = "ack") <=> (settled[Len(settled)].saved = "written")

(* The message for a file that could not be opened was saved and             *)
(* acknowledged.                                                             *)
C34_Witness ==
    /\ consPc = "wait" /\ scanPc = "idle" /\ caller = "consumer"
    /\ settled # <<>>
    /\ scanCond = "open_failed"
    /\ settled[Len(settled)].saved = "written"
    /\ settled[Len(settled)].how = "ack"

(* The settlements for which the output file was written. *)
Written == { i \in 1..Len(settled) : settled[i].saved = "written" }
LastWritten == CHOOSE i \in Written : \A j \in Written : j <= i

(* C35: the output file holds what the last successful write put there and   *)
(* nothing else: one array with as many elements as that message's result    *)
(* has records (behind the comment line when it has none).                   *)
C35_ArtifactIsLastWrite ==
    IF Written = {} THEN ~artifact.exists
    ELSE /\ artifact.exists
         /\ Len(ArtifactElems) = settled[LastWritten].count
         /\ Len(artifact.content) = (IF settled[LastWritten].count = 0 THEN 2 ELSE 1)

(* A write with a record was followed by a write of an empty result. *)
C35_Witness ==
    \E i \in Written :
        /\ i < LastWritten
        /\ settled[i].count >= 1
        /\ settled[LastWritten].count = 0
        /\ ArtifactElems = <<>>

C37_OffsetsKeptWhole ==
    /\ \A i \in 1..Len(emitted) : emitted[i].outcome # "raised"
    /\ ~(consPc = "stopped" /\ CarriesBoth(envelope)
         /\ ~StoiThrows(OffsetText(envelope.read_position))
         /\ PositionRaises(envelope.read_position))
    /\ (consPc = "extract" /\ reqEnd < 0) =>
           ~IsDigit(Head(OffsetText(envelope.read_position)))

(* C38: no checkpoint the producer builds has an empty temp_file_name. *)
C38_NameNeverEmpty ==
    \A i \in 1..Len(emitted) :
        emitted[i].outcome # "raised" => emitted[i].msg.temp_file_name.val # ""

====
